---- MODULE Spec2Model ----
(***************************************************************************)
(* Model of the kidsnews account widget.                                   *)
(*                                                                         *)
(*   SupabaseUserManager (user_manager_supabase.js): the custom magic-link *)
(*   flow over the magic_links / user_profiles tables and Supabase Auth,   *)
(*   and the reading-style preference.                                     *)
(*   UserManager (user_manager.js): the anonymous device id and the usage  *)
(*   statistics kept in localStorage.                                      *)
(*                                                                         *)
(* Every await of the source is a step boundary: an action is the          *)
(* continuation that runs when the previous request has answered, together *)
(* with the server-side execution of the next request it issues.           *)
(***************************************************************************)
EXTENDS Integers, Sequences, FiniteSets, TLC

\* ------------------------------------------------------------------ bounds
\* number of sendCustomMagicLink calls of one behaviour (tokens are fresh)
MaxTokens == 1
\* last instant of the clock, in minutes
MaxTime == 16
\* awaited requests one SupabaseUserManager has in flight at a time
MaxPending == 2
\* device ids handed out in one behaviour
MaxDeviceIds == 2

\* ------------------------------------------------------- program constants
\* validity of a magic link in minutes: Date.now() + 15 * 60 * 1000
MagicLinkTTL == 15

\* ---------------------------------------------------------------- domains
\* browsers running a SupabaseUserManager (two devices or two tabs)
SupaManagers == {"s1", "s2"}
\* the browser in which the e-mail form is submitted
Submitters == {"s1"}
\* the manager whose session and account menu are exercised
StyleManagers == {"s1"}
\* addresses typed into the e-mail form
Emails == {"kid@example.com"}
\* the option of the reading-style select picked in the login modal
StyleInputs == {"relax"}
\* a token no sendCustomMagicLink call ever generated
BogusToken == 0
\* outcome of a request to the database: { data, error }
DbOutcomes == {"ok", "error"}
\* a missing value (null / undefined, localStorage.getItem of an absent key)
Null == "null"
\* authData?.user?.id when there is no user
NoUserId == <<>>
\* outcome of an awaited request that may also reject
CallOutcomes == {"ok", "error", "threw"}
\* the reading styles chosen in the account menu
StyleChoices == {"relax", "research"}
\* browser tabs running a UserManager over one localStorage
Tabs == {"t1", "t2"}
\* arguments of the track calls
Articles == {1}
Words == {1}
Scores == {0, 1}
Totals == {0, 2}
\* answers of GET /device/generate: success with an id, success false or
\* no device_id, and a rejected fetch or unparsable body
DeviceOutcomes == {"success", "no_id", "threw"}

VARIABLES
    now,            \* the clock read by Date.now() and new Date()
    magic_links,    \* table magic_links: set of rows
    user_profiles,  \* table user_profiles: set of rows
    authUsers,      \* e-mails registered with Supabase Auth
    nextToken,      \* next token generateRandomToken returns
    emailRequests,  \* tokens whose link was handed to the send-email function
    readingStyle,   \* this.readingStyle of each SupabaseUserManager
    styleStore,     \* localStorage news_reading_style of each browser
    call,           \* the running async method of each manager
    ret,            \* what the last finished method returned or threw
    returnedTrue,   \* tokens for which verifyMagicLink returned true
    issued,         \* <<token, t>>: sendCustomMagicLink made the token at t
    user,           \* this.user of each SupabaseUserManager (its e-mail)
    profile,        \* this.profile: <<>> or <<row of user_profiles>>
    pending,        \* awaited requests of onLogin and changeReadingStyle
    localStorage,   \* localStorage of the browser running the UserManagers
    um,             \* the fields of each UserManager (one per tab)
    nextDevice,     \* next device id the server or the fallback makes
    session,        \* the Supabase Auth session persisted in each browser
    search,         \* magic_token of the URL of each SupabaseUserManager page
    location,       \* window.location of each tab: path and query
    sessionStorage  \* sessionStorage of each tab

magicVars == <<now, magic_links, user_profiles, authUsers, nextToken,
               emailRequests, readingStyle, styleStore, call, ret,
               returnedTrue, issued>>

\* state of the session and preference handling of SupabaseUserManager
styleVars == <<user, profile, pending>>

\* state of UserManager
userVars == <<localStorage, um, nextDevice>>

\* the session and the URL of the pages running a SupabaseUserManager
authVars == <<session, search>>

\* the window state of the tabs running a UserManager
pageVars == <<location, sessionStorage>>

vars == <<magicVars, styleVars, userVars, authVars, pageVars>>

\* ------------------------------------------------------------ conversions
\* Date.prototype.toISOString: the instant written as an ISO-8601 string
ToISOString(t) == [iso |-> t]
\* new Date(isoString): the instant an ISO-8601 string denotes
DateParse(s) == s.iso

\* ----------------------------------------------------------- call frames
IdleCall ==
    [pc |-> "idle", token |-> BogusToken, err |-> FALSE, data |-> <<>>,
     userId |-> NoUserId, existing |-> <<>>, effects |-> {},
     overlapped |-> FALSE]

NoReturn == [kind |-> "none", token |-> BogusToken, overlapped |-> FALSE]

\* the outcome of call frame c: what it returned or threw
Returned(kind, c) ==
    [kind |-> kind, token |-> c.token, overlapped |-> c.overlapped]

\* the select without its .eq('token', token) filter
SelectMagicLinks_NoFilter(tok) ==
    IF magic_links # {}
    THEN <<CHOOSE r \in magic_links : TRUE>>
    ELSE <<>>

\* rows of a table matching .eq(column, value).limit(1), as an array
SelectMagicLinks(tok) ==
    IF \E r \in magic_links : r.token = tok
    THEN <<CHOOSE r \in magic_links : r.token = tok>>
    ELSE <<>>

SelectProfilesByEmail(email) ==
    IF \E p \in user_profiles : p.email = email
    THEN <<CHOOSE p \in user_profiles : p.email = email>>
    ELSE <<>>

\* .delete().eq('token', tok): the rows removed when the request succeeds
DeleteMagicLink(tok, outcome) ==
    IF outcome = "ok"
    THEN {r \in magic_links : r.token # tok}
    ELSE magic_links

\* id Supabase Auth gives the user of an e-mail
UserIdOf(email) == <<"uid", email>>

\* the instants at which the clock is read: the start, and the instants
\* from the expiry of a link made at the start onwards
Instants == {t \in 0..MaxTime : t = 0 \/ t >= MagicLinkTTL}

\* time passes
Tick ==
    /\ \E t \in Instants :
          /\ t > now
          /\ now' = t
    /\ UNCHANGED <<magic_links, user_profiles, authUsers, nextToken,
                   emailRequests, readingStyle, styleStore, call, ret,
                   returnedTrue>>
    /\ UNCHANGED <<issued, styleVars, userVars, authVars, pageVars>>

\* ------------------------------------------------- sendCustomMagicLink
\* the submit handler of the e-mail form up to the awaited insert
SubmitEmailForm(m, email, style, outcome) ==
    /\ call[m].pc = "idle"
    /\ nextToken <= MaxTokens
    /\ readingStyle' = [readingStyle EXCEPT ![m] = style]
    /\ styleStore' = [styleStore EXCEPT ![m] = style]
    /\ LET token == nextToken
           expiresAt == now + MagicLinkTTL
           row == [token |-> token, email |-> email,
                   reading_style |-> style,
                   expires_at |-> ToISOString(expiresAt)]
       IN  /\ magic_links' = IF outcome = "ok"
                              THEN magic_links \cup {row}
                              ELSE magic_links
           /\ call' = [call EXCEPT ![m] =
                          [IdleCall EXCEPT !.pc = "s_inserted",
                                           !.token = token,
                                           !.err = (outcome = "error")]]
    /\ nextToken' = nextToken + 1
    /\ ret' = [ret EXCEPT ![m] = NoReturn]
    /\ UNCHANGED <<now, user_profiles, authUsers, emailRequests,
                   returnedTrue>>
    /\ issued' = issued \cup {<<nextToken, now>>}
    /\ UNCHANGED <<styleVars, userVars, authVars, pageVars>>

\* the e-mail posted without looking at insertError
SendEmail_Unchecked(m, responseOk) ==
    /\ call[m].pc = "s_inserted"
    /\ emailRequests' = emailRequests \cup {call[m].token}
    /\ ret' = [ret EXCEPT ![m] =
                  Returned(IF responseOk THEN "sent" ELSE "email_failed",
                           call[m])]
    /\ call' = [call EXCEPT ![m] = IdleCall]
    /\ UNCHANGED <<now, magic_links, user_profiles, authUsers, nextToken,
                   readingStyle, styleStore, returnedTrue>>
    /\ UNCHANGED <<issued, styleVars, userVars, authVars, pageVars>>

\* after the insert answered: throw, or post the link to send-email
SendEmail(m, responseOk) ==
    /\ call[m].pc = "s_inserted"
    /\ IF call[m].err
       THEN /\ ret' = [ret EXCEPT ![m] = Returned("create_failed", call[m])]
            /\ UNCHANGED emailRequests
       ELSE /\ emailRequests' = emailRequests \cup {call[m].token}
            /\ ret' = [ret EXCEPT ![m] =
                          Returned(IF responseOk THEN "sent"
                                   ELSE "email_failed", call[m])]
    /\ call' = [call EXCEPT ![m] = IdleCall]
    /\ UNCHANGED <<now, magic_links, user_profiles, authUsers, nextToken,
                   readingStyle, styleStore, returnedTrue>>
    /\ UNCHANGED <<issued, styleVars, userVars, authVars, pageVars>>

\* ----------------------------------------------------- verifyMagicLink
\* manager o is between the lookup and the return of verifyMagicLink(tok)
InFlight(o, tok) ==
    /\ call[o].pc \in {"v_selected", "v_signed", "v_profiled", "v_written",
                       "v_deleted"}
    /\ call[o].token = tok

\* the call and its select on magic_links
VerifySelect(m, tok, outcome) ==
    /\ call[m].pc = "idle"
    /\ tok \in emailRequests \cup {BogusToken}
    /\ call' = [call EXCEPT ![m] =
                  [IdleCall EXCEPT
                      !.pc = "v_selected",
                      !.token = tok,
                      !.err = (outcome = "error"),
                      !.data = IF outcome = "ok"
                               THEN SelectMagicLinks(tok) ELSE <<>>]]
    /\ ret' = [ret EXCEPT ![m] = NoReturn]
    /\ UNCHANGED <<now, magic_links, user_profiles, authUsers, nextToken,
                   emailRequests, readingStyle, styleStore, returnedTrue>>
    /\ UNCHANGED <<issued, styleVars, userVars, session, pageVars>>
    /\ search' = [search EXCEPT ![m] = tok]

\* the comparison written the wrong way round
IsExpired_Reversed(row, t) == DateParse(row.expires_at) > t

\* the comparison with <= : a link is rejected at its expiry instant
IsExpired_Inclusive(row, t) == DateParse(row.expires_at) <= t

\* answers of auth.signUp for an address not yet registered: the user with a
\* session, the user without one (the address is to be confirmed first), an
\* error; for a registered address it never answers with a session
SignUpOutcomes == {"session", "confirm", "error"}

\* new Date(magicLinkData.expires_at) < new Date()
IsExpired(row, t) == DateParse(row.expires_at) < t

\* the lookup answered: reject, or delete the expired row, or sign up
VerifyCheck(m, deleteOutcome, signUp) ==
    /\ call[m].pc = "v_selected"
    /\ LET c == call[m] IN
       IF c.err \/ Len(c.data) = 0
       THEN /\ ret' = [ret EXCEPT ![m] = Returned("invalid", c)]
            /\ call' = [call EXCEPT ![m] = IdleCall]
            /\ search' = [search EXCEPT ![m] = Null]
            /\ UNCHANGED <<magic_links, authUsers, session>>
       ELSE IF IsExpired(c.data[1], now)
       THEN /\ magic_links' = DeleteMagicLink(c.token, deleteOutcome)
            /\ ret' = [ret EXCEPT ![m] = Returned("expired", c)]
            /\ call' = [call EXCEPT ![m] = IdleCall]
            /\ search' = [search EXCEPT ![m] = Null]
            /\ UNCHANGED <<authUsers, session>>
       ELSE LET email == c.data[1].email
                created == signUp # "error" /\ email \notin authUsers
            IN  /\ authUsers' = IF created THEN authUsers \cup {email}
                                ELSE authUsers
                /\ session' = IF created /\ signUp = "session"
                              THEN [session EXCEPT ![m] = email]
                              ELSE session
                /\ call' = [call EXCEPT ![m] =
                              [c EXCEPT !.pc = "v_signed",
                                        !.userId = IF created
                                                   THEN UserIdOf(email)
                                                   ELSE NoUserId,
                                        !.effects = {"signUp"}]]
                /\ UNCHANGED <<magic_links, ret, search>>
    /\ UNCHANGED <<now, user_profiles, nextToken, emailRequests,
                   readingStyle, styleStore, returnedTrue>>
    /\ UNCHANGED <<issued, styleVars, userVars, pageVars>>

\* the sign-up answered: look the profile up by e-mail
VerifyFindProfile(m) ==
    /\ call[m].pc = "v_signed"
    /\ LET c == call[m]
           email == c.data[1].email
       IN  IF c.userId # NoUserId \/ email # ""
           THEN call' = [call EXCEPT ![m] =
                           [c EXCEPT !.pc = "v_profiled",
                                     !.existing = SelectProfilesByEmail(email),
                                     !.effects = @ \cup {"profileRead"}]]
           ELSE call' = [call EXCEPT ![m] = [c EXCEPT !.pc = "v_written"]]
    /\ UNCHANGED <<now, magic_links, user_profiles, authUsers, nextToken,
                   emailRequests, readingStyle, styleStore, ret,
                   returnedTrue>>
    /\ UNCHANGED <<issued, styleVars, userVars, authVars, pageVars>>

\* the profile lookup answered: update the profile, insert one, or neither
VerifyWriteProfile(m, outcome, deleteOutcome) ==
    /\ call[m].pc = "v_profiled"
    /\ LET c == call[m]
           link == c.data[1]
       IN  IF Len(c.existing) > 0
           THEN LET userId == c.existing[1].id IN
                /\ user_profiles' =
                      IF outcome = "ok"
                      THEN {IF p.id = userId
                            THEN [p EXCEPT !.readingStyle = link.reading_style]
                            ELSE p : p \in user_profiles}
                      ELSE user_profiles
                /\ call' = [call EXCEPT ![m] =
                              [c EXCEPT !.pc = "v_written",
                                        !.userId = userId,
                                        !.effects = @ \cup {"profileWrite"}]]
                /\ UNCHANGED magic_links
           ELSE IF c.userId # NoUserId
           THEN /\ user_profiles' =
                      IF outcome = "ok"
                      THEN user_profiles \cup
                             {[id |-> c.userId, email |-> link.email,
                               readingStyle |-> link.reading_style]}
                      ELSE user_profiles
                /\ call' = [call EXCEPT ![m] =
                              [c EXCEPT !.pc = "v_written",
                                        !.effects = @ \cup {"profileWrite"}]]
                /\ UNCHANGED magic_links
           ELSE \* no await in between: the delete of line 450 is issued now
                /\ magic_links' = DeleteMagicLink(c.token, deleteOutcome)
                /\ call' = [call EXCEPT ![m] =
                              [c EXCEPT !.pc = "v_deleted",
                                        !.effects = @ \cup {"delete"}]]
                /\ UNCHANGED user_profiles
    /\ UNCHANGED <<now, authUsers, nextToken, emailRequests, readingStyle,
                   styleStore, ret, returnedTrue>>
    /\ UNCHANGED <<issued, styleVars, userVars, authVars, pageVars>>

\* the profile write answered: delete the used token
VerifyDeleteToken(m, outcome) ==
    /\ call[m].pc = "v_written"
    /\ magic_links' = DeleteMagicLink(call[m].token, outcome)
    /\ call' = [call EXCEPT ![m] =
                  [call[m] EXCEPT !.pc = "v_deleted",
                                  !.effects = @ \cup {"delete"}]]
    /\ UNCHANGED <<now, user_profiles, authUsers, nextToken, emailRequests,
                   readingStyle, styleStore, ret, returnedTrue>>
    /\ UNCHANGED <<issued, styleVars, userVars, authVars, pageVars>>

\* the delete answered: adopt the reading style, arm the reload, return true
VerifyReturn(m) ==
    /\ call[m].pc = "v_deleted"
    /\ LET c == call[m] IN
       /\ readingStyle' = [readingStyle EXCEPT ![m] = c.data[1].reading_style]
       /\ styleStore' = [styleStore EXCEPT ![m] = c.data[1].reading_style]
       /\ ret' = [ret EXCEPT ![m] = Returned("true", c)]
       /\ returnedTrue' = returnedTrue \cup {c.token}
       \* the calls still running for the same token have overlapped with
       \* one that returns true
       /\ call' = [o \in SupaManagers |->
                     IF o = m THEN IdleCall
                     ELSE IF InFlight(o, c.token)
                          THEN [call[o] EXCEPT !.overlapped = TRUE]
                          ELSE call[o]]
    /\ UNCHANGED <<now, magic_links, user_profiles, authUsers, nextToken,
                   emailRequests>>
    /\ UNCHANGED <<issued, styleVars, userVars, session, pageVars>>
    /\ search' = [search EXCEPT ![m] = Null]

\* ------------------------------------------- onLogin / changeReadingStyle
\* an awaited request of manager m and what it answered
Continuation(op, email, style, rows, threw) ==
    [op |-> op, email |-> email, style |-> style, rows |-> rows,
     threw |-> threw]

SelectProfilesById(id) ==
    IF \E p \in user_profiles : p.id = id
    THEN <<CHOOSE p \in user_profiles : p.id = id>>
    ELSE <<>>

\* .update({ preferences: { readingStyle } }).eq('id', id)
UpdatePreferences(id, style, outcome) ==
    IF outcome = "ok"
    THEN {IF p.id = id THEN [p EXCEPT !.readingStyle = style] ELSE p :
             p \in user_profiles}
    ELSE user_profiles

\* .upsert(newProfile): the row replaces the one with the same id
UpsertProfile(row, outcome) ==
    IF outcome = "ok"
    THEN {p \in user_profiles : p.id # row.id} \cup {row}
    ELSE user_profiles

\* onAuthStateChange with a session: onLogin up to the awaited select
OnLogin(m, email, outcome) ==
    /\ Cardinality(pending[m]) < MaxPending
    /\ user' = [user EXCEPT ![m] = email]
    /\ pending' = [pending EXCEPT ![m] = @ \cup
          {Continuation("login_select", email, Null,
                        IF outcome = "ok"
                        THEN SelectProfilesById(UserIdOf(email)) ELSE <<>>,
                        outcome = "threw")}]
    /\ authUsers' = authUsers \cup {email}
    /\ UNCHANGED <<now, magic_links, user_profiles, nextToken, emailRequests,
                   readingStyle, styleStore, call, ret, returnedTrue, issued,
                   profile, userVars, authVars, pageVars>>

\* onAuthStateChange without a session: onLogout
OnLogout(m) ==
    /\ user[m] # Null
    /\ user' = [user EXCEPT ![m] = Null]
    /\ profile' = [profile EXCEPT ![m] = <<>>]
    /\ UNCHANGED <<magicVars, pending, userVars, authVars, pageVars>>

\* the select of onLogin answered: adopt the profile, or upsert a new one
OnLoginProfiles(m, p, outcome) ==
    /\ p \in pending[m]
    /\ p.op = "login_select"
    /\ IF p.threw
       THEN \* catch: only the local save of line 193 runs
            /\ styleStore' = [styleStore EXCEPT ![m] = readingStyle[m]]
            /\ pending' = [pending EXCEPT ![m] = @ \ {p}]
            /\ UNCHANGED <<profile, readingStyle, user_profiles>>
       ELSE IF Len(p.rows) > 0
       THEN /\ profile' = [profile EXCEPT ![m] = p.rows]
            /\ readingStyle' = [readingStyle EXCEPT ![m] =
                                  p.rows[1].readingStyle]
            /\ styleStore' = [styleStore EXCEPT ![m] = p.rows[1].readingStyle]
            /\ pending' = [pending EXCEPT ![m] = @ \ {p}]
            /\ UNCHANGED user_profiles
       ELSE LET newProfile == [id |-> UserIdOf(p.email), email |-> p.email,
                               readingStyle |-> readingStyle[m]]
            IN  /\ user_profiles' = UpsertProfile(newProfile, outcome)
                /\ pending' = [pending EXCEPT ![m] = (@ \ {p}) \cup
                      {Continuation("login_upsert", p.email, Null,
                                    IF outcome = "ok" THEN <<newProfile>>
                                    ELSE <<>>,
                                    outcome = "threw")}]
                /\ UNCHANGED <<profile, readingStyle, styleStore>>
    /\ UNCHANGED <<now, magic_links, authUsers, nextToken, emailRequests,
                   call, ret, returnedTrue, issued, user, userVars, authVars, pageVars>>

\* the upsert of onLogin answered: keep the row it returned, save locally
OnLoginUpserted(m, p) ==
    /\ p \in pending[m]
    /\ p.op = "login_upsert"
    /\ profile' = IF ~p.threw /\ Len(p.rows) > 0
                  THEN [profile EXCEPT ![m] = p.rows]
                  ELSE profile
    /\ styleStore' = [styleStore EXCEPT ![m] = readingStyle[m]]
    /\ pending' = [pending EXCEPT ![m] = @ \ {p}]
    /\ UNCHANGED <<now, magic_links, user_profiles, authUsers, nextToken,
                   emailRequests, readingStyle, call, ret, returnedTrue,
                   issued, user, userVars, authVars, pageVars>>

\* the reload armed by verifyMagicLink: a new SupabaseUserManager whose init
\* asks getSession and runs onLogin only when the browser holds a session
MagicReload(m, outcome) ==
    /\ ret[m].kind = "true"
    /\ call[m].pc = "idle"
    /\ user' = [user EXCEPT ![m] = session[m]]
    /\ profile' = [profile EXCEPT ![m] = <<>>]
    /\ readingStyle' = [readingStyle EXCEPT ![m] = "enjoy"]
    /\ pending' = [pending EXCEPT ![m] =
          IF session[m] # Null
          THEN {Continuation("login_select", session[m], Null,
                             IF outcome = "ok"
                             THEN SelectProfilesById(UserIdOf(session[m]))
                             ELSE <<>>,
                             outcome = "threw")}
          ELSE {}]
    /\ ret' = [ret EXCEPT ![m].kind = "reloaded"]
    /\ UNCHANGED <<now, magic_links, user_profiles, authUsers, nextToken,
                   emailRequests, styleStore, call, returnedTrue, issued,
                   userVars, authVars, pageVars>>

\* the preference kept locally only once the profile update went through
ChangeReadingStyle_AfterUpdate(m, newStyle, outcome) ==
    /\ IF Len(profile[m]) > 0
       THEN /\ Cardinality(pending[m]) < MaxPending
            /\ user_profiles' =
                  UpdatePreferences(profile[m][1].id, newStyle, outcome)
            /\ pending' = [pending EXCEPT ![m] = @ \cup
                  {Continuation("change", Null, newStyle, <<>>,
                                outcome = "threw")}]
            /\ IF outcome = "ok"
               THEN /\ readingStyle' = [readingStyle EXCEPT ![m] = newStyle]
                    /\ styleStore' = [styleStore EXCEPT ![m] = newStyle]
               ELSE UNCHANGED <<readingStyle, styleStore>>
       ELSE /\ outcome = "ok"
            /\ readingStyle' = [readingStyle EXCEPT ![m] = newStyle]
            /\ styleStore' = [styleStore EXCEPT ![m] = newStyle]
            /\ UNCHANGED <<user_profiles, pending>>
    /\ UNCHANGED <<now, magic_links, authUsers, nextToken, emailRequests,
                   call, ret, returnedTrue, issued, user, profile, userVars, authVars, pageVars>>

\* changeReadingStyle up to its return or to the awaited profile update
ChangeReadingStyle(m, newStyle, outcome) ==
    /\ readingStyle' = [readingStyle EXCEPT ![m] = newStyle]
    /\ styleStore' = [styleStore EXCEPT ![m] = newStyle]
    /\ IF Len(profile[m]) > 0
       THEN /\ Cardinality(pending[m]) < MaxPending
            /\ user_profiles' =
                  UpdatePreferences(profile[m][1].id, newStyle, outcome)
            /\ pending' = [pending EXCEPT ![m] = @ \cup
                  {Continuation("change", Null, newStyle, <<>>,
                                outcome = "threw")}]
       ELSE /\ outcome = "ok"
            /\ UNCHANGED <<user_profiles, pending>>
    /\ UNCHANGED <<now, magic_links, authUsers, nextToken, emailRequests,
                   call, ret, returnedTrue, issued, user, profile, userVars, authVars, pageVars>>

\* the profile update answered or threw: log the error, return
ChangeReadingStyleReturn(m, p) ==
    /\ p \in pending[m]
    /\ p.op = "change"
    /\ pending' = [pending EXCEPT ![m] = @ \ {p}]
    /\ UNCHANGED <<magicVars, user, profile, userVars, authVars, pageVars>>

\* ------------------------------------------------------------ UserManager
\* localStorage.getItem of an absent key; a stored value v is <<v>>
NoItem == <<>>

\* the keys under which UserManager keeps the identity
IdentityKeys == {"news_user_id", "news_user_token", "news_user_name",
                 "news_reading_style", "news_device_id"}

\* the keys deleteSubscription removes by name
UnprefixedKeys == {"user_id", "bootstrap_token", "user_name", "reading_style",
                   "device_id"}

\* keys starting with word_, quiz_ or article_read_
ActivityKeys == {"article_read_1"}

StorageKeys == IdentityKeys \cup UnprefixedKeys \cup ActivityKeys
                  \cup {"news_stats", "language"}

\* the keys of sessionStorage
SessionKeys == {"pendingLevel"}

\* the parameters of the query string the pages use
QueryParams == {"verified", "token", "level", "lang"}

\* an empty query string
NoQuery == [k \in QueryParams |-> Null]

\* a JavaScript number, a boolean, and the literal null of a JSON text
Num(n) == <<"num", n>>
Bool(b) == <<"bool", b>>
NaN == <<"NaN">>
Infinity == <<"Infinity">>
JSONNull == <<"null">>

\* JSON.stringify of one value: NaN and Infinity are written as null
JSONValue(v) == IF v \in {NaN, Infinity} THEN JSONNull ELSE v

\* JSON.stringify(this.stats): the text, as the members it writes
JSONStringify(stats) ==
    [k \in DOMAIN stats |->
        [f \in DOMAIN stats[k] |-> JSONValue(stats[k][f])]]

\* JSON.parse of a text JSON.stringify wrote
JSONParse(text) == text

\* Math.round((score / total) * 100)
Percentage(score, total) ==
    IF total = 0
    THEN IF score = 0 THEN NaN ELSE Infinity
    ELSE Num((200 * score + total) \div (2 * total))

\* this.stats[key] = entry
Put(stats, key, entry) ==
    [k \in DOMAIN stats \cup {key} |-> IF k = key THEN entry ELSE stats[k]]

\* the empty object {}
EmptyStats == [k \in {} |-> <<>>]

\* localStorage.getItem(key): null when absent
GetItem(store, key) == IF store[key] = NoItem THEN Null ELSE store[key][1]

\* loadStats
LoadStats(store) ==
    IF store["news_stats"] = NoItem THEN EmptyStats
    ELSE JSONParse(store["news_stats"][1])

\* the device id stored in a browser: NoItem or <<id>>
DeviceItem(store) == store["news_device_id"]

\* ensureDeviceId asking the server whatever localStorage holds
Constructed_AlwaysFetch(store) ==
    [pc |-> "device_wait",
     userId |-> GetItem(store, "news_user_id"),
     userToken |-> GetItem(store, "news_user_token"),
     userName |-> GetItem(store, "news_user_name"),
     readingStyle |-> IF GetItem(store, "news_reading_style") = Null
                      THEN "enjoy"
                      ELSE GetItem(store, "news_reading_style"),
     deviceId |-> DeviceItem(store),
     stats |-> LoadStats(store),
     info |-> NoItem, login |-> NoItem, del |-> NoItem,
     timers |-> {}, modal |-> FALSE, nav |-> NoItem]

\* new UserManager(): the constructor and init up to its first await
Constructed(store) ==
    [pc |-> IF DeviceItem(store) = NoItem THEN "device_wait" ELSE "ready",
     userId |-> GetItem(store, "news_user_id"),
     userToken |-> GetItem(store, "news_user_token"),
     userName |-> GetItem(store, "news_user_name"),
     readingStyle |-> IF GetItem(store, "news_reading_style") = Null
                      THEN "enjoy"
                      ELSE GetItem(store, "news_reading_style"),
     deviceId |-> DeviceItem(store),
     stats |-> LoadStats(store),
     info |-> NoItem, login |-> NoItem, del |-> NoItem,
     timers |-> {}, modal |-> FALSE, nav |-> NoItem]

\* a value JavaScript takes for false in a condition: null, undefined, ''
Falsy(v) == v \in {Null, ""}

\* the body of a response that carries no account
NoData == [user_id |-> Null, bootstrap_token |-> Null, name |-> Null,
           reading_style |-> Null]

\* the accounts the server knows
Accounts ==
    {[user_id |-> "u1", bootstrap_token |-> "tokA", name |-> "Ann"]}

\* reading_style of a response body: the four styles, a name no style has,
\* a name every object inherits, and none
ResponseStyles == {"relax", "enjoy", "research", "chinese", "other",
                   "constructor", Null}

\* reading_style of the body of /user/info
InfoStyles == {"chinese"}

\* reading_style of the body of /user/token when the account is exercised
LoginStyles == {"relax", "other"}

\* the body of a response that carries an account with one of the styles
AccountData(styles) ==
    {[user_id |-> a.user_id, bootstrap_token |-> a.bootstrap_token,
      name |-> a.name, reading_style |-> st] :
        a \in Accounts, st \in styles}

\* answers to GET /user/info: an OK status with a body, another status with
\* a body, and a rejected fetch or a body that is not JSON
InfoResponses ==
    {[kind |-> "ok", data |-> d] : d \in AccountData(InfoStyles)}
       \cup {[kind |-> k, data |-> NoData] : k \in {"not_ok", "threw"}}

\* checkVerificationStatus up to its await: the request to /user/info when
\* the URL carries verified=true and a token, nothing otherwise; the set of
\* the states the manager can be in, one for every answer of the server
CheckVerificationStatus(u, url) ==
    IF /\ u.pc = "ready"
       /\ url.query["verified"] = "true"
       /\ ~Falsy(url.query["token"])
    THEN {[u EXCEPT !.pc = "verify_wait",
                    !.info = <<[kind |-> resp.kind, data |-> resp.data,
                                token |-> url.query["token"]]>>] :
             resp \in InfoResponses}
    ELSE {u}

\* a page load of tab t: a new UserManager over the current localStorage
PageLoad(t) ==
    /\ \E u \in CheckVerificationStatus(Constructed(localStorage),
                                         location[t]) :
          um' = [um EXCEPT ![t] = u]
    /\ UNCHANGED <<magicVars, styleVars, authVars, pageVars, localStorage, nextDevice>>

\* ensureDeviceId after /device/generate answered, or fetch / json() threw
EnsureDeviceId(t, outcome) ==
    /\ um[t].pc = "device_wait"
    /\ LET made == IF outcome = "success" THEN <<"server", nextDevice>>
                   ELSE <<"news-local", nextDevice>>
       IN  IF outcome \in {"success", "threw"}
           THEN /\ nextDevice <= MaxDeviceIds
                /\ \E u \in CheckVerificationStatus(
                                [um[t] EXCEPT !.deviceId = made,
                                              !.pc = "ready"],
                                location[t]) :
                      um' = [um EXCEPT ![t] = u]
                /\ localStorage' = [localStorage EXCEPT
                                      !["news_device_id"] = made]
                /\ nextDevice' = nextDevice + 1
           ELSE /\ \E u \in CheckVerificationStatus(
                                [um[t] EXCEPT !.pc = "ready"],
                                location[t]) :
                      um' = [um EXCEPT ![t] = u]
                /\ UNCHANGED <<localStorage, nextDevice>>
    /\ UNCHANGED <<magicVars, styleVars, authVars, pageVars>>

\* saveStats
SaveStats(stats) ==
    [localStorage EXCEPT !["news_stats"] = <<JSONStringify(stats)>>]

TrackWordCompletion(t, articleId, wordId) ==
    /\ um[t].pc # "navigating"
    /\ LET key == <<"word", articleId, wordId>>
           entry == [completed |-> Bool(TRUE), timestamp |-> Num(now)]
       IN  /\ um' = [um EXCEPT ![t].stats = Put(@, key, entry)]
           /\ localStorage' = SaveStats(um'[t].stats)
    /\ UNCHANGED <<magicVars, styleVars, authVars, pageVars, nextDevice>>

TrackQuizCompletion(t, articleId, score, total) ==
    /\ um[t].pc # "navigating"
    /\ LET key == <<"quiz", articleId>>
           entry == [score |-> Num(score), total |-> Num(total),
                     percentage |-> Percentage(score, total),
                     timestamp |-> Num(now)]
       IN  /\ um' = [um EXCEPT ![t].stats = Put(@, key, entry)]
           /\ localStorage' = SaveStats(um'[t].stats)
    /\ UNCHANGED <<magicVars, styleVars, authVars, pageVars, nextDevice>>

TrackArticleRead(t, articleId) ==
    /\ um[t].pc # "navigating"
    /\ LET key == <<"read", articleId>>
           entry == [read |-> Bool(TRUE), timestamp |-> Num(now)]
       IN  /\ um' = [um EXCEPT ![t].stats = Put(@, key, entry)]
           /\ localStorage' = SaveStats(um'[t].stats)
    /\ UNCHANGED <<magicVars, styleVars, authVars, pageVars, nextDevice>>

\* window.location.href.split('?')[0]: the URL up to its query string
WithoutQuery(url) == [url EXCEPT !.query = NoQuery]

\* logout leaving sessionStorage and the query string as they are
Logout_LocalStorageOnly(t, confirmed) ==
    /\ um[t].pc # "navigating"
    /\ IF confirmed
       THEN /\ localStorage' = [k \in StorageKeys |-> NoItem]
            /\ um' = [um EXCEPT ![t].pc = "navigating",
                                ![t].nav = <<"href", "logout">>]
            /\ UNCHANGED pageVars
       ELSE UNCHANGED <<localStorage, um, pageVars>>
    /\ UNCHANGED <<magicVars, styleVars, authVars, nextDevice>>

\* logout: when confirmed, clear the storage and navigate to the bare URL
Logout(t, confirmed) ==
    /\ um[t].pc # "navigating"
    /\ IF confirmed
       THEN /\ localStorage' = [k \in StorageKeys |-> NoItem]
            /\ sessionStorage' = [sessionStorage EXCEPT
                                    ![t] = [k \in SessionKeys |-> NoItem]]
            /\ location' = [location EXCEPT ![t] = WithoutQuery(@)]
            /\ um' = [um EXCEPT ![t].pc = "navigating",
                                ![t].nav = <<"href", "logout">>]
       ELSE UNCHANGED <<localStorage, um, pageVars>>
    /\ UNCHANGED <<magicVars, styleVars, authVars, nextDevice>>

\* ------------------------------------------- UserManager: the account
\* saveUserData: a field is written only when it is not falsy
SaveUserData(store, u) ==
    [k \in StorageKeys |->
        CASE k = "news_user_id" /\ ~Falsy(u.userId) -> <<u.userId>>
          [] k = "news_user_token" /\ ~Falsy(u.userToken) -> <<u.userToken>>
          [] k = "news_user_name" /\ ~Falsy(u.userName) -> <<u.userName>>
          [] k = "news_reading_style" /\ ~Falsy(u.readingStyle) ->
                <<u.readingStyle>>
          [] OTHER -> store[k]]

\* isRegistered
IsRegistered(u) == ~Falsy(u.userId) /\ ~Falsy(u.userToken)

\* the pathnames of the pages: '/', '/index.html' and '/article.html'
Paths == {<<>>, <<"index.html">>, <<"article.html">>}

\* pathname === '/' || pathname.includes('index.html')
IsIndexPage(path) ==
    \/ path = <<>>
    \/ \E i \in DOMAIN path : path[i] = "index.html"

\* the names every object literal inherits from Object.prototype
ObjectPrototypeKeys == {"constructor", "toString", "valueOf",
                        "hasOwnProperty"}

\* levelMap[style]: the level of a style, an inherited member written into
\* the URL as a string, or undefined
LevelMap(style) ==
    CASE style = "relax" -> "easy"
      [] style = "enjoy" -> "middle"
      [] style = "research" -> "high"
      [] style \in ObjectPrototypeKeys -> "function"
      [] OTHER -> Null

\* redirectToPreferredPage: location.reload() or the URL assigned to
\* window.location.href
RedirectToPreferredPage(style, url) ==
    IF Falsy(style) THEN [how |-> "reload", url |-> url]
    ELSE IF ~IsIndexPage(url.path) THEN [how |-> "reload", url |-> url]
    ELSE IF style = "chinese"
    THEN [how |-> "href", url |-> [url EXCEPT !.query["lang"] = "cn"]]
    ELSE IF ~Falsy(LevelMap(style))
    THEN [how |-> "href",
          url |-> [url EXCEPT !.query["level"] = LevelMap(style)]]
    ELSE [how |-> "reload", url |-> url]

\* the links opened in a tab: a page, with or without the parameters of a
\* verification e-mail
Links ==
    {[path |-> p, query |-> NoQuery] : p \in Paths}
       \cup {[path |-> p, query |-> [NoQuery EXCEPT !["verified"] = "true",
                                                    !["token"] = k]] :
                p \in Paths, k \in {"", "tokA"}}

\* the user opens a link in tab t: the page is loaded from that URL
OpenLink(t, url) ==
    /\ location' = [location EXCEPT ![t] = url]
    /\ \E u \in CheckVerificationStatus(Constructed(localStorage), url) :
          um' = [um EXCEPT ![t] = u]
    /\ UNCHANGED <<magicVars, styleVars, authVars, localStorage, nextDevice,
                   sessionStorage>>

\* the language and level settings the pages keep besides the UserManager
PageScript(t, lang, level) ==
    /\ um[t].pc # "navigating"
    /\ localStorage' = [localStorage EXCEPT !["language"] = <<lang>>]
    /\ sessionStorage' = [sessionStorage EXCEPT
                            ![t]["pendingLevel"] = <<level>>]
    /\ UNCHANGED <<magicVars, styleVars, authVars, um, nextDevice, location>>

\* window.history.replaceState({}, document.title, window.location.pathname)
ReplaceStateWithPathname(url) == [url EXCEPT !.query = NoQuery]

\* the URL cleaned only on the success path
CheckVerificationResponse_CleanOnSuccess(t) ==
    /\ um[t].pc = "verify_wait"
    /\ LET r == um[t].info[1]
           adopted == [um[t] EXCEPT !.userId = r.data.user_id,
                                    !.userToken = r.token,
                                    !.userName = r.data.name,
                                    !.readingStyle = r.data.reading_style,
                                    !.info = NoItem,
                                    !.timers = @ \cup {"redirect"},
                                    !.pc = "ready"]
       IN  IF r.kind = "ok"
           THEN /\ um' = [um EXCEPT ![t] = adopted]
                /\ localStorage' = SaveUserData(localStorage, adopted)
                /\ location' = [location EXCEPT
                                  ![t] = ReplaceStateWithPathname(@)]
           ELSE /\ um' = [um EXCEPT ![t].info = NoItem, ![t].pc = "ready"]
                /\ UNCHANGED <<localStorage, location>>
    /\ UNCHANGED <<magicVars, styleVars, authVars, nextDevice,
                   sessionStorage>>

\* checkVerificationStatus after /user/info answered, then the rest of init
CheckVerificationResponse(t) ==
    /\ um[t].pc = "verify_wait"
    /\ LET r == um[t].info[1]
           adopted == [um[t] EXCEPT !.userId = r.data.user_id,
                                    !.userToken = r.token,
                                    !.userName = r.data.name,
                                    !.readingStyle = r.data.reading_style,
                                    !.info = NoItem,
                                    !.timers = @ \cup {"redirect"},
                                    !.pc = "ready"]
       IN  IF r.kind = "ok"
           THEN /\ um' = [um EXCEPT ![t] = adopted]
                /\ localStorage' = SaveUserData(localStorage, adopted)
           ELSE /\ um' = [um EXCEPT ![t].info = NoItem, ![t].pc = "ready"]
                /\ UNCHANGED localStorage
    /\ location' = [location EXCEPT ![t] = ReplaceStateWithPathname(@)]
    /\ UNCHANGED <<magicVars, styleVars, authVars, nextDevice,
                   sessionStorage>>

\* String.prototype.trim on the characters typed into a field
RECURSIVE TrimStart(_)
TrimStart(str) ==
    IF str # <<>> /\ Head(str) = " " THEN TrimStart(Tail(str)) ELSE str

RECURSIVE TrimEnd(_)
TrimEnd(str) ==
    IF str # <<>> /\ str[Len(str)] = " "
    THEN TrimEnd(SubSeq(str, 1, Len(str) - 1))
    ELSE str

Trim(str) == TrimEnd(TrimStart(str))

\* what is typed into login-email: nothing, blanks, an address with and
\* without blanks around it
LoginInputs == {<<>>, <<" ">>, <<"a@b">>, <<" ", "a@b", " ">>}

\* answers to POST /user/token: OK with success true and an account, a
\* status that is not OK, OK with success false, a body that is not JSON,
\* and a rejected fetch
TokenResponses(styles) ==
    {[kind |-> "ok", data |-> d] : d \in AccountData(styles)}
       \cup {[kind |-> k, data |-> NoData] :
                k \in {"not_ok", "no_success", "non_json", "threw"}}

\* handleLogin without the check of the trimmed e-mail
HandleLogin_NoEmptyCheck(t, input, resp) ==
    /\ um[t].pc = "ready"
    /\ um[t].login = NoItem
    /\ um' = [um EXCEPT ![t].login = <<resp>>, ![t].modal = TRUE]
    /\ UNCHANGED <<magicVars, styleVars, authVars, pageVars, localStorage,
                   nextDevice>>

\* the login form is submitted: handleLogin up to the awaited fetch
HandleLogin(t, input, resp) ==
    /\ um[t].pc = "ready"
    /\ um[t].login = NoItem
    /\ IF Trim(input) = <<>>
       THEN um' = [um EXCEPT ![t].modal = TRUE]
       ELSE um' = [um EXCEPT ![t].login = <<resp>>, ![t].modal = TRUE]
    /\ UNCHANGED <<magicVars, styleVars, authVars, pageVars, localStorage,
                   nextDevice>>

\* handleLogin keeping the account in memory only and redirecting at once
HandleLoginResponse_NoSave(t) ==
    /\ um[t].pc # "navigating"
    /\ um[t].login # NoItem
    /\ LET r == um[t].login[1] IN
       IF r.kind = "ok"
       THEN um' = [um EXCEPT ![t].userId = r.data.user_id,
                             ![t].userToken = r.data.bootstrap_token,
                             ![t].userName = r.data.name,
                             ![t].readingStyle = r.data.reading_style,
                             ![t].login = NoItem,
                             ![t].timers = @ \cup {"redirect"}]
       ELSE um' = [um EXCEPT ![t].login = NoItem]
    /\ UNCHANGED <<magicVars, styleVars, authVars, pageVars, localStorage,
                   nextDevice>>

\* handleLogin after /user/token answered
HandleLoginResponse(t) ==
    /\ um[t].pc # "navigating"
    /\ um[t].login # NoItem
    /\ LET r == um[t].login[1]
           adopted == [um[t] EXCEPT !.userId = r.data.user_id,
                                    !.userToken = r.data.bootstrap_token,
                                    !.userName = r.data.name,
                                    !.readingStyle = r.data.reading_style,
                                    !.login = NoItem,
                                    !.timers = @ \cup {"login_redirect"}]
       IN  IF r.kind = "ok"
           THEN /\ um' = [um EXCEPT ![t] = adopted]
                /\ localStorage' = SaveUserData(localStorage, adopted)
           ELSE /\ um' = [um EXCEPT ![t].login = NoItem]
                /\ UNCHANGED localStorage
    /\ UNCHANGED <<magicVars, styleVars, authVars, pageVars, nextDevice>>

\* what is typed into the prompt of deleteSubscription (Null: cancelled)
ConfirmTexts == {"DELETE", "delete", "", Null}

\* answers to POST /user/delete: OK with success true, a status that is not
\* OK, OK with success false, and a rejected fetch or a body that is not JSON
DeleteOutcomes == {"ok", "not_ok", "no_success", "threw"}

\* deleteSubscription asking only for the first confirmation
DeleteSubscription_OneConfirmation(t, confirmed, confirmText, outcome) ==
    /\ um[t].pc = "ready"
    /\ um[t].del = NoItem
    /\ IF confirmed
       THEN um' = [um EXCEPT ![t].del = <<outcome>>]
       ELSE UNCHANGED um
    /\ UNCHANGED <<magicVars, styleVars, authVars, pageVars, localStorage,
                   nextDevice>>

\* deleteSubscription up to the awaited fetch
DeleteSubscription(t, confirmed, confirmText, outcome) ==
    /\ um[t].pc = "ready"
    /\ um[t].del = NoItem
    /\ IF confirmed /\ confirmText = "DELETE"
       THEN um' = [um EXCEPT ![t].del = <<outcome>>]
       ELSE UNCHANGED um
    /\ UNCHANGED <<magicVars, styleVars, authVars, pageVars, localStorage,
                   nextDevice>>

\* the keys the success branch of deleteSubscription removes
RemovedByDelete == UnprefixedKeys \cup ActivityKeys

\* deleteSubscription taking every answered request for a success
DeleteSubscriptionResponse_AnyAnswer(t) ==
    /\ um[t].pc # "navigating"
    /\ um[t].del # NoItem
    /\ IF um[t].del[1] # "threw"
       THEN /\ localStorage' = [k \in StorageKeys |->
                                  IF k \in RemovedByDelete THEN NoItem
                                  ELSE localStorage[k]]
            /\ um' = [um EXCEPT ![t].del = NoItem,
                                ![t].timers = @ \cup {"reload"}]
       ELSE /\ um' = [um EXCEPT ![t].del = NoItem]
            /\ UNCHANGED localStorage
    /\ UNCHANGED <<magicVars, styleVars, authVars, pageVars, nextDevice>>

\* deleteSubscription after /user/delete answered
DeleteSubscriptionResponse(t) ==
    /\ um[t].pc # "navigating"
    /\ um[t].del # NoItem
    /\ IF um[t].del[1] = "ok"
       THEN /\ localStorage' = [k \in StorageKeys |->
                                  IF k \in RemovedByDelete THEN NoItem
                                  ELSE localStorage[k]]
            /\ um' = [um EXCEPT ![t].del = NoItem,
                                ![t].timers = @ \cup {"reload"}]
       ELSE /\ um' = [um EXCEPT ![t].del = NoItem]
            /\ UNCHANGED localStorage
    /\ UNCHANGED <<magicVars, styleVars, authVars, pageVars, nextDevice>>

\* a setTimeout callback of tab t runs: location.reload(), or
\* redirectToPreferredPage, after closeLoginSubscribeModal for a login; nav
\* keeps how the page is left and by which callback
RunTimer(t, cb) ==
    /\ um[t].pc # "navigating"
    /\ cb \in um[t].timers
    /\ LET target == IF cb = "reload"
                     THEN [how |-> "reload", url |-> location[t]]
                     ELSE RedirectToPreferredPage(um[t].readingStyle,
                                                  location[t])
       IN  /\ location' = [location EXCEPT ![t] = target.url]
           /\ um' = [um EXCEPT ![t].timers = @ \ {cb},
                               ![t].modal = IF cb = "login_redirect"
                                            THEN FALSE ELSE @,
                               ![t].pc = "navigating",
                               ![t].nav = <<target.how, cb>>]
    /\ UNCHANGED <<magicVars, styleVars, authVars, localStorage, nextDevice,
                   sessionStorage>>

Init ==
    /\ now = 0
    /\ magic_links = {}
    /\ user_profiles = {}
    /\ authUsers = {}
    /\ nextToken = 1
    /\ emailRequests = {}
    /\ readingStyle = [m \in SupaManagers |-> "enjoy"]
    /\ styleStore = [m \in SupaManagers |-> Null]
    /\ call = [m \in SupaManagers |-> IdleCall]
    /\ ret = [m \in SupaManagers |-> NoReturn]
    /\ returnedTrue = {}
    /\ issued = {}
    /\ user = [m \in SupaManagers |-> Null]
    /\ profile = [m \in SupaManagers |-> <<>>]
    /\ pending = [m \in SupaManagers |-> {}]
    /\ localStorage = [k \in StorageKeys |-> NoItem]
    /\ um = [t \in Tabs |-> Constructed(localStorage)]
    /\ nextDevice = 1
    /\ session = [m \in SupaManagers |-> Null]
    /\ search = [m \in SupaManagers |-> Null]
    /\ location = [t \in Tabs |-> [path |-> <<>>, query |-> NoQuery]]
    /\ sessionStorage = [t \in Tabs |-> [k \in SessionKeys |-> NoItem]]

NextMagic ==
    \/ Tick
    \/ \E m \in Submitters, e \in Emails, s \in StyleInputs,
          o \in DbOutcomes : SubmitEmailForm(m, e, s, o)
    \/ \E m \in Submitters, ok \in BOOLEAN : SendEmail(m, ok)
    \/ \E m \in SupaManagers, t \in 0..MaxTokens, o \in DbOutcomes :
          VerifySelect(m, t, o)
    \/ \E m \in SupaManagers, o \in DbOutcomes,
          su \in SignUpOutcomes \ {"session"} : VerifyCheck(m, o, su)
    \/ \E m \in SupaManagers : VerifyFindProfile(m)
    \/ \E m \in SupaManagers, o \in DbOutcomes, d \in DbOutcomes :
          VerifyWriteProfile(m, o, d)
    \/ \E m \in SupaManagers, o \in DbOutcomes : VerifyDeleteToken(m, o)
    \/ \E m \in SupaManagers : VerifyReturn(m)

\* one browser that requests a link, opens it and is reloaded
NextSignIn ==
    \/ Tick
    \/ \E m \in StyleManagers, e \in Emails, s \in StyleInputs,
          o \in DbOutcomes : SubmitEmailForm(m, e, s, o)
    \/ \E m \in StyleManagers, ok \in BOOLEAN : SendEmail(m, ok)
    \/ \E m \in StyleManagers, t \in 0..MaxTokens, o \in DbOutcomes :
          VerifySelect(m, t, o)
    \/ \E m \in StyleManagers, o \in DbOutcomes, su \in SignUpOutcomes :
          VerifyCheck(m, o, su)
    \/ \E m \in StyleManagers : VerifyFindProfile(m)
    \/ \E m \in StyleManagers, o \in DbOutcomes, d \in DbOutcomes :
          VerifyWriteProfile(m, o, d)
    \/ \E m \in StyleManagers, o \in DbOutcomes : VerifyDeleteToken(m, o)
    \/ \E m \in StyleManagers : VerifyReturn(m)
    \/ \E m \in StyleManagers, o \in CallOutcomes : MagicReload(m, o)
    \/ \E m \in StyleManagers, o \in CallOutcomes :
          \E p \in pending[m] : OnLoginProfiles(m, p, o)
    \/ \E m \in StyleManagers : \E p \in pending[m] : OnLoginUpserted(m, p)

NextStyle ==
    \/ \E m \in StyleManagers, e \in Emails, o \in CallOutcomes :
          OnLogin(m, e, o)
    \/ \E m \in StyleManagers : OnLogout(m)
    \/ \E m \in StyleManagers, o \in CallOutcomes :
          \E p \in pending[m] : OnLoginProfiles(m, p, o)
    \/ \E m \in StyleManagers : \E p \in pending[m] : OnLoginUpserted(m, p)
    \/ \E m \in StyleManagers, s \in StyleChoices, o \in CallOutcomes :
          ChangeReadingStyle(m, s, o)
    \/ \E m \in StyleManagers :
          \E p \in pending[m] : ChangeReadingStyleReturn(m, p)

SpecMagic == Init /\ [][NextMagic]_vars

SpecSignIn == Init /\ [][NextSignIn]_vars

SpecStyle == Init /\ [][NextStyle]_vars

NextUser ==
    \/ \E t \in Tabs : PageLoad(t)
    \/ \E t \in Tabs, o \in DeviceOutcomes : EnsureDeviceId(t, o)
    \/ \E t \in Tabs, a \in Articles, w \in Words :
          TrackWordCompletion(t, a, w)
    \/ \E t \in Tabs, a \in Articles, sc \in Scores, tot \in Totals :
          TrackQuizCompletion(t, a, sc, tot)
    \/ \E t \in Tabs, a \in Articles : TrackArticleRead(t, a)
    \/ \E t \in Tabs, c \in BOOLEAN : Logout(t, c)

SpecUser == Init /\ [][NextUser]_vars

\* the tab in which the account is used
AccountTabs == {"t1"}

NextAccount ==
    \/ \E t \in AccountTabs, url \in Links : OpenLink(t, url)
    \/ \E t \in AccountTabs : PageLoad(t)
    \/ \E t \in AccountTabs : EnsureDeviceId(t, "success")
    \/ \E t \in AccountTabs : CheckVerificationResponse(t)
    \/ \E t \in AccountTabs, i \in LoginInputs,
          r \in TokenResponses(LoginStyles) : HandleLogin(t, i, r)
    \/ \E t \in AccountTabs : HandleLoginResponse(t)
    \/ \E t \in AccountTabs, c \in BOOLEAN, x \in ConfirmTexts,
          o \in DeleteOutcomes : DeleteSubscription(t, c, x, o)
    \/ \E t \in AccountTabs : DeleteSubscriptionResponse(t)
    \/ \E t \in AccountTabs, cb \in {"reload", "redirect", "login_redirect"} :
          RunTimer(t, cb)
    \/ \E t \in AccountTabs, c \in BOOLEAN : Logout(t, c)
    \/ \E t \in AccountTabs : PageScript(t, "cn", "easy")

SpecAccount == Init /\ [][NextAccount]_vars

\* the page a tab is leaving is replaced by the page it navigates to
Navigated(t) ==
    /\ um[t].pc = "navigating"
    /\ PageLoad(t)

\* the login of the users of two tabs, left alone until its redirect
NextLogin ==
    \/ \E t \in Tabs : EnsureDeviceId(t, "success")
    \/ \E t \in Tabs, i \in LoginInputs, r \in TokenResponses(LoginStyles) :
          HandleLogin(t, i, r)
    \/ \E t \in Tabs : HandleLoginResponse(t)
    \/ \E t \in Tabs : RunTimer(t, "login_redirect")
    \/ \E t \in Tabs : Navigated(t)

\* a scheduled setTimeout callback runs while its page stays
SpecLogin ==
    /\ Init
    /\ [][NextLogin]_vars
    /\ \A t \in Tabs : WF_vars(RunTimer(t, "login_redirect"))

\* the pages of the site opened without parameters
Pages == {l \in Links : l.query = NoQuery}

\* logins on every page, with every reading style the server may answer
NextRedirect ==
    \/ \E t \in AccountTabs, url \in Pages : OpenLink(t, url)
    \/ \E t \in AccountTabs : EnsureDeviceId(t, "success")
    \/ \E t \in AccountTabs, i \in LoginInputs,
          r \in TokenResponses(ResponseStyles) : HandleLogin(t, i, r)
    \/ \E t \in AccountTabs : HandleLoginResponse(t)
    \/ \E t \in AccountTabs : RunTimer(t, "login_redirect")
    \/ \E t \in AccountTabs : Navigated(t)

SpecRedirect == Init /\ [][NextRedirect]_vars

\* no magic link has been requested or opened and the clock has not moved
NoMagicLinkYet ==
    /\ now = 0
    /\ nextToken = 1
    /\ \A m \in SupaManagers : call[m] = IdleCall /\ ret[m] = NoReturn

\* no page running a UserManager has been opened from a link
NoPageOpenedYet ==
    /\ nextDevice = 1
    /\ \A t \in Tabs : location[t] = [path |-> <<>>, query |-> NoQuery]

\* the pages opened from a link that carries a login token: the magic link
\* of SupabaseUserManager or the verification link of UserManager. The two
\* managers share no state, so a behaviour follows one of them.
NextLinks ==
    \/ NoPageOpenedYet /\ NextSignIn
    \/ /\ NoMagicLinkYet
       /\ \/ \E t \in AccountTabs, url \in Links : OpenLink(t, url)
          \/ \E t \in AccountTabs : EnsureDeviceId(t, "success")
          \/ \E t \in AccountTabs : CheckVerificationResponse(t)

SpecLinks == Init /\ [][NextLinks]_vars

\* ================================================================ claims

\* the row of magic_links holding token tok is present
RowPresent(tok) == \E r \in magic_links : r.token = tok

\* what a verifyMagicLink call must leave alone when it rejects the token
RejectFrame ==
    UNCHANGED <<user_profiles, authUsers, readingStyle, styleStore,
                localStorage>>

\* C1: once verifyMagicLink(token) has returned true, magic_links holds no
\* row for that token (so that every later call finds none and throws
\* 'Invalid or expired magic link').
C1_SingleUse == \A tok \in returnedTrue : ~RowPresent(tok)

\* C2: of two verifyMagicLink calls for one token that run concurrently, at
\* most one returns true: no call returns true after a call that overlapped
\* with it has returned true for the same token.
C2_AtMostOneSuccess ==
    ~ \E m \in SupaManagers :
         /\ ret[m].kind = "true"
         /\ ret[m].overlapped

\* manager m resumes verifyMagicLink with the row its lookup found, and the
\* row's expires_at is earlier than the current time
FindsExpired(m) ==
    /\ call[m].pc = "v_selected"
    /\ ~call[m].err
    /\ Len(call[m].data) > 0
    /\ DateParse(call[m].data[1].expires_at) < now

C4_FifteenMinutes ==
    [][/\ \A r \in magic_links' :
             <<r.token, DateParse(r.expires_at) - MagicLinkTTL>> \in issued'
       /\ \A m \in SupaManagers :
             (/\ call[m].pc = "v_selected"
              /\ ~call[m].err
              /\ Len(call[m].data) > 0) =>
                \A d \in DbOutcomes, ok \in SignUpOutcomes :
                   VerifyCheck(m, d, ok) =>
                      \A t \in 0..MaxTime :
                         <<call[m].token, t>> \in issued =>
                            (ret'[m].kind = "expired"
                                <=> now > t + MagicLinkTTL)
      ]_vars

\* one manager was rejected one minute after the expiry of a link
C4_Witness ==
    \E m \in SupaManagers :
        /\ ret[m].kind = "expired"
        /\ <<ret[m].token, now - MagicLinkTTL - 1>> \in issued

\* C5: when the lookup answers with an error or finds no row for the token,
\* verifyMagicLink throws 'Invalid or expired magic link' and changes neither
\* magic_links, user_profiles, the auth users, this.readingStyle nor
\* localStorage.
C5_UnknownToken ==
    [][\A m \in SupaManagers :
          /\ (call[m].pc = "idle" /\ call'[m].pc = "v_selected") =>
                \A o \in DbOutcomes :
                   (/\ VerifySelect(m, call'[m].token, o)
                    /\ o = "error" \/ ~RowPresent(call'[m].token))
                      => /\ call'[m].err \/ Len(call'[m].data) = 0
                         /\ UNCHANGED magic_links
                         /\ RejectFrame
          /\ (/\ call[m].pc = "v_selected"
              /\ call[m].err \/ Len(call[m].data) = 0) =>
                \A d \in DbOutcomes, ok \in SignUpOutcomes :
                   VerifyCheck(m, d, ok)
                      => /\ ret'[m].kind = "invalid"
                         /\ call'[m].pc = "idle"
                         /\ UNCHANGED magic_links
                         /\ RejectFrame]_vars

\* a token without a row was rejected while magic_links held a row
C5_Witness ==
    \E m \in SupaManagers :
        /\ ret[m].kind = "invalid"
        /\ ~RowPresent(ret[m].token)
        /\ magic_links # {}

\* C6: the send-email request is made only after the insert succeeded, the
\* row of the token it carries is in magic_links when the request is made,
\* and a failed insert throws without any request.
C6_StoredBeforeSent ==
    [][/\ \A tok \in emailRequests' \ emailRequests : RowPresent(tok)
       /\ \A m \in SupaManagers, ok \in BOOLEAN :
             SendEmail(m, ok) =>
                IF call[m].err
                THEN /\ emailRequests' = emailRequests
                     /\ ret'[m].kind = "create_failed"
                ELSE emailRequests' = emailRequests \cup {call[m].token}
      ]_vars

\* a link was posted to send-email and a failed insert has thrown
C6_Witness ==
    /\ emailRequests # {}
    /\ \E m \in SupaManagers : ret[m].kind \in {"sent", "email_failed"}

\* a track call of tab t
TrackStep(t) ==
    \/ \E a \in Articles, w \in Words : TrackWordCompletion(t, a, w)
    \/ \E a \in Articles, sc \in Scores, tot \in Totals :
          TrackQuizCompletion(t, a, sc, tot)
    \/ \E a \in Articles : TrackArticleRead(t, a)

\* C7: after a track call, localStorage news_stats holds the serialization
\* of the in-memory stats, and loadStats restores a map equal to them.
C7_StatsRoundTrip ==
    [][\A t \in Tabs :
          TrackStep(t) =>
             /\ localStorage'["news_stats"] = <<JSONStringify(um'[t].stats)>>
             /\ LoadStats(localStorage') = um'[t].stats]_vars

C9_DeviceIdentity ==
    [][\A t \in Tabs :
          ((\E o \in DeviceOutcomes : EnsureDeviceId(t, o))
             \/ (PageLoad(t) /\ um'[t].pc = "ready")) =>
             /\ um'[t].deviceId # NoItem
             /\ um'[t].deviceId = DeviceItem(localStorage')]_vars

IdentityOf(u) == <<u.userId, u.userToken, u.userName, u.readingStyle>>

\* the identity kept in localStorage
StoredIdentity(store) == [k \in IdentityKeys |-> store[k]]

\* C11: when the page of a registered user reloads after the server has
\* confirmed the deletion, localStorage holds no identity (id, token, name,
\* reading style, device id) and no statistics, and isRegistered() is false
\* on the reloaded page.
C11_DeletionClearsLocalData ==
    [][\A t \in Tabs :
          (/\ um[t].nav = <<"reload", "reload">>
           /\ IsRegistered(um[t])
           /\ PageLoad(t)) =>
             /\ \A k \in IdentityKeys \cup {"news_stats"} :
                   localStorage'[k] = NoItem
             /\ ~IsRegistered(um'[t])]_vars

\* C12: deleteSubscription sends the /user/delete request exactly when the
\* confirm dialog was accepted and the prompt text is 'DELETE'; in every
\* other case nothing is sent, and no call removes a localStorage key before
\* the answer.
C12_TwoConfirmations ==
    [][\A t \in Tabs, c \in BOOLEAN, x \in ConfirmTexts, o \in DeleteOutcomes :
          DeleteSubscription(t, c, x, o) =>
             /\ um'[t].del = IF c /\ x = "DELETE" THEN <<o>> ELSE NoItem
             /\ UNCHANGED <<localStorage, sessionStorage, location>>
             /\ IdentityOf(um'[t]) = IdentityOf(um[t])]_vars

\* the request of a registered user is on its way
C12_Witness ==
    \E t \in Tabs :
        /\ um[t].del # NoItem
        /\ IsRegistered(um[t])
        /\ localStorage["news_user_id"] # NoItem

\* C13: when /user/delete answers with a status that is not OK, with success
\* false, or the request throws, deleteSubscription removes no localStorage
\* key, changes no identity field and schedules no reload.
C13_FailedDeletion ==
    [][\A t \in Tabs :
          (DeleteSubscriptionResponse(t) /\ um[t].del # <<"ok">>) =>
             /\ UNCHANGED <<localStorage, sessionStorage, location>>
             /\ IdentityOf(um'[t]) = IdentityOf(um[t])
             /\ um'[t].deviceId = um[t].deviceId
             /\ um'[t].timers = um[t].timers
             /\ um'[t].pc = um[t].pc]_vars

\* a registered user's request is about to be answered with a failure
C13_Witness ==
    \E t \in Tabs :
        /\ um[t].del \in {<<"not_ok">>, <<"no_success">>, <<"threw">>}
        /\ IsRegistered(um[t])
        /\ StoredIdentity(localStorage)["news_user_token"] # NoItem

\* C14: a confirmed logout leaves no key in localStorage and in the tab's
\* sessionStorage and navigates to the current URL without its query string;
\* a declined logout changes no storage key, no field and no URL.
C14_LogoutClears ==
    [][\A t \in Tabs :
          /\ Logout(t, TRUE) =>
                /\ \A k \in StorageKeys : localStorage'[k] = NoItem
                /\ \A k \in SessionKeys : sessionStorage'[t][k] = NoItem
                /\ location'[t] = [path |-> location[t].path,
                                   query |-> NoQuery]
                /\ um'[t].pc = "navigating"
          /\ Logout(t, FALSE) =>
                UNCHANGED <<localStorage, sessionStorage, location, um>>
      ]_vars

\* a registered user with language settings has logged out of a page whose
\* URL carried a level
C14_Witness ==
    \E t \in Tabs :
        /\ um[t].nav = <<"href", "logout">>
        /\ IsRegistered(um[t])
        /\ \A k \in StorageKeys : localStorage[k] = NoItem
        /\ \A k \in SessionKeys : sessionStorage[t][k] = NoItem
        /\ location[t].query = NoQuery

\* C15: handleLogin sends no request when the trimmed e-mail is empty, and
\* when /user/token answers with a body that is not JSON, a status that is
\* not OK, success false, or the request throws, the identity fields and
\* their news_* keys keep their values and no redirect is scheduled.
C15_FailedLogin ==
    [][\A t \in Tabs :
          /\ \A i \in LoginInputs, r \in TokenResponses(ResponseStyles) :
                (HandleLogin(t, i, r) /\ Trim(i) = <<>>) =>
                   /\ um'[t].login = NoItem
                   /\ UNCHANGED localStorage
          /\ (HandleLoginResponse(t) /\ um[t].login[1].kind # "ok") =>
                /\ IdentityOf(um'[t]) = IdentityOf(um[t])
                /\ UNCHANGED localStorage
                /\ um'[t].timers = um[t].timers
                /\ um'[t].pc = um[t].pc
                /\ UNCHANGED location]_vars

\* a registered user's login is about to be answered with a failure
C15_Witness ==
    \E t \in Tabs :
        /\ um[t].login # NoItem
        /\ um[t].login[1].kind \in {"non_json", "not_ok", "no_success",
                                   "threw"}
        /\ IsRegistered(um[t])
        /\ localStorage["news_user_id"] # NoItem

\* C16: after handleLogin received an OK answer with success true,
\* isRegistered() is true and the user id, token, name and reading style of
\* the answer are stored under the news_* keys, and eventually the login
\* modal is closed and redirectToPreferredPage has been invoked.
C16_LoginLeadsToPreferredPage ==
    /\ [][\A t \in Tabs :
             (HandleLoginResponse(t) /\ um[t].login[1].kind = "ok") =>
                LET d == um[t].login[1].data IN
                /\ IsRegistered(um'[t])
                /\ IdentityOf(um'[t]) = <<d.user_id, d.bootstrap_token,
                                          d.name, d.reading_style>>
                /\ localStorage'["news_user_id"] = <<d.user_id>>
                /\ localStorage'["news_user_token"] = <<d.bootstrap_token>>
                /\ localStorage'["news_user_name"] = <<d.name>>
                /\ ~Falsy(d.reading_style) =>
                      localStorage'["news_reading_style"] =
                          <<d.reading_style>>]_vars
    /\ \A t \in Tabs :
          ("login_redirect" \in um[t].timers) ~>
             (/\ um[t].nav # NoItem
              /\ um[t].nav[2] = "login_redirect"
              /\ ~um[t].modal)

\* a user with the style relax has logged in on the index page and is
\* redirected to level=easy
C16_Witness ==
    \E t \in Tabs :
        /\ um[t].nav = <<"href", "login_redirect">>
        /\ location[t].query["level"] = "easy"
        /\ IsRegistered(um[t])
        /\ localStorage["news_reading_style"] = <<"relax">>

\* C19: when verifyMagicLink has returned true for an unexpired token, then
\* after the page reload it schedules the manager holds an authenticated
\* session user, i.e. isRegistered() is true.
C19_MagicLinkSignsIn ==
    \A m \in SupaManagers : ret[m].kind = "reloaded" => user[m] # Null

\* the URL of tab t carries verified=true and a token
CarriesLoginToken(t) ==
    /\ location[t].query["verified"] = "true"
    /\ ~Falsy(location[t].query["token"])

\* verifyMagicLink of manager m is running
Verifying(m) == \E tok \in 0..MaxTokens : InFlight(m, tok)

\* C17: a login token carried in the page URL never survives its
\* processing. Once a UserManager has handled a URL with verified=true and a
\* token, and once a SupabaseUserManager has handled a magic_token, the query
\* string is gone for every outcome (accepted, rejected, exception), and the
\* identity is adopted only in the accepted outcome: a rejected or failed
\* attempt leaves the manager's identity, the stored identity and the session
\* as they were.
C17_TokenNeverSurvives ==
    /\ [](\A t \in Tabs : um[t].pc = "ready" => ~CarriesLoginToken(t))
    /\ [](\A m \in SupaManagers : ~Verifying(m) => search[m] = Null)
    /\ [][/\ \A t \in Tabs :
               CheckVerificationResponse(t) =>
                  LET r == um[t].info[1] IN
                  /\ location'[t].query = NoQuery
                  /\ r.kind = "ok" =>
                        /\ um'[t].userToken = r.token
                        /\ um'[t].userId = r.data.user_id
                        /\ localStorage'["news_user_token"] = <<r.token>>
                  /\ r.kind # "ok" =>
                        /\ IdentityOf(um'[t]) = IdentityOf(um[t])
                        /\ localStorage' = localStorage
          /\ \A m \in SupaManagers :
               (Verifying(m) /\ call'[m].pc = "idle") =>
                  /\ search[m] = call[m].token
                  /\ search'[m] = Null
                  /\ ret'[m].kind # "true" =>
                        /\ "signUp" \notin call[m].effects
                        /\ session'[m] = session[m]
                        /\ user'[m] = user[m]
                        /\ readingStyle'[m] = readingStyle[m]
                        /\ styleStore'[m] = styleStore[m]]_vars

\* a verification link was accepted: the identity of the answer is adopted
\* with the token of the URL, and the URL has lost its query string
C17_Witness ==
    \E t \in Tabs :
        /\ um[t].pc = "ready"
        /\ "redirect" \in um[t].timers
        /\ um[t].userToken = "tokA"
        /\ localStorage["news_user_token"] = <<"tokA">>
        /\ location[t].query = NoQuery

\* the URL parameter redirectToPreferredPage is said to set for a style
PreferredParameter(style) ==
    CASE style = "relax" -> <<"level", "easy">>
      [] style = "enjoy" -> <<"level", "middle">>
      [] style = "research" -> <<"level", "high">>
      [] style = "chinese" -> <<"lang", "cn">>
      [] OTHER -> <<>>

\* C18: redirectToPreferredPage on the index page sets level=easy for
\* 'relax', level=middle for 'enjoy', level=high for 'research' and lang=cn
\* for 'chinese' and navigates to that URL; with no reading style, an unknown
\* reading style, or a page that is not the index page it only reloads the
\* current page and sets no parameter.
C18_RedirectMapping ==
    [][\A t \in Tabs : \A cb \in {"redirect", "login_redirect"} :
          RunTimer(t, cb) =>
             LET style == um[t].readingStyle
                 param == PreferredParameter(style)
             IN  IF IsIndexPage(location[t].path) /\ param # <<>>
                 THEN /\ um'[t].nav[1] = "href"
                      /\ location'[t] =
                            [location[t] EXCEPT !.query[param[1]] = param[2]]
                 ELSE /\ um'[t].nav[1] = "reload"
                      /\ location'[t] = location[t]]_vars

\* the keys of the events held by localStorage news_stats
StoredEvents(store) == DOMAIN LoadStats(store)

\* C20: no tracked event is lost between tabs. Whatever the interleaving of
\* the track calls of the tabs sharing one localStorage, a track call and its
\* save keep every event news_stats already holds, so that after the tabs
\* have saved news_stats holds the events recorded by either of them.
C20_NoEventLost ==
    [][\A t \in Tabs :
          TrackStep(t) =>
             StoredEvents(localStorage) \subseteq
                StoredEvents(localStorage')]_vars

====
